---- MODULE Spec2Model ----
(***************************************************************************)
(* Model of the static-file HTTP server of src/htttpd.py and src/httpcls.py *)
(*                                                                         *)
(* Text is modelled as a sequence of tokens.  A token is an indivisible    *)
(* piece of text: one of the bytes the code looks at ("/", "?", space,     *)
(* "\r", "\n"), a ".." segment, a percent escape, or a name.  Every string *)
(* operation of the code (strip, split, partition, abspath, commonpath,    *)
(* join, endswith) is computed on these sequences the way the Python       *)
(* library computes it on characters.                                      *)
(***************************************************************************)
EXTENDS Integers, Sequences, FiniteSets, TLC

VARIABLES DOCUMENT_ROOT, SAFE_DIR, fs, conn, wk

vars == <<DOCUMENT_ROOT, SAFE_DIR, fs, conn, wk>>

----------------------------------------------------------------------------
(* Bounds of the model *)

\* longest request target, in tokens, of the exhaustive target family
MaxTargetLen == 5
\* longest raw buffer, in tokens, of the exhaustive request-line family
MaxBufLen == 7
\* longest percent-encoded target, in tokens
MaxEncLen == 4
\* workers started by serve_forever (NUMBER_WORKERS, -w)
NumWorkers == 2
\* connections that clients open in the pool specifications
MaxConns == 3
\* longest target, in tokens, requested by GET and HEAD side by side, and by POST
MaxPairLen == 4
\* most chunks (one conn.recv each) a request head arrives in
MaxChunks == 3
\* longest path, in tokens, requested with and without a query string
MaxStemLen == 2
\* longest query string, in tokens, put after the "?"
MaxQueryLen == 2

----------------------------------------------------------------------------
(* Tokens *)

SP == "SP"
CR == "CR"
LF == "LF"
SLASH == "/"
QMARK == "?"
DOTDOT == ".."
DOT == "."

\* the sequences over alphabet A of length at most n
SeqUpTo(A, n) == UNION {[1..k -> A] : k \in 0..n}

IsPrefix(p, s) == Len(p) <= Len(s) /\ SubSeq(s, 1, Len(p)) = p

\* pat in s (bytes.__contains__, str.__contains__)
Contains(s, pat) ==
    \E i \in 1..(Len(s) - Len(pat) + 1) : SubSeq(s, i, i + Len(pat) - 1) = pat

\* index of the first occurrence of pat in s, 0 when there is none (str.find + 1)
Find(s, pat) ==
    IF Contains(s, pat)
    THEN CHOOSE i \in 1..(Len(s) - Len(pat) + 1) :
            /\ SubSeq(s, i, i + Len(pat) - 1) = pat
            /\ \A j \in 1..(i - 1) : SubSeq(s, j, j + Len(pat) - 1) # pat
    ELSE 0

\* str.partition(sep): <<before, sep, after>>, or <<s, "", "">> without sep
partition(s, sep) ==
    LET i == Find(s, sep)
    IN  IF i = 0 THEN <<s, <<>>, <<>>>>
        ELSE <<SubSeq(s, 1, i - 1), sep, SubSeq(s, i + Len(sep), Len(s))>>

\* str.split(sep): the pieces between occurrences of sep, empty ones kept
RECURSIVE split(_, _)
split(s, sep) ==
    LET i == Find(s, sep)
    IN  IF i = 0 THEN <<s>>
        ELSE <<SubSeq(s, 1, i - 1)>> \o split(SubSeq(s, i + Len(sep), Len(s)), sep)

\* sep.join(parts)
RECURSIVE join(_, _)
join(sep, parts) ==
    IF Len(parts) = 0 THEN <<>>
    ELSE IF Len(parts) = 1 THEN parts[1]
    ELSE parts[1] \o sep \o join(sep, Tail(parts))

\* the characters str.strip() and str.split() treat as whitespace
IsWhitespace(t) == t \in {SP, CR, LF}

RECURSIVE lstrip(_)
lstrip(s) ==
    IF Len(s) > 0 /\ IsWhitespace(s[1]) THEN lstrip(Tail(s)) ELSE s

RECURSIVE rstrip(_)
rstrip(s) ==
    IF Len(s) > 0 /\ IsWhitespace(s[Len(s)]) THEN rstrip(SubSeq(s, 1, Len(s) - 1)) ELSE s

strip(s) == rstrip(lstrip(s))

\* str.split() without argument: the maximal runs of non-whitespace
RECURSIVE splitWords(_)
splitWords(s) ==
    LET t == lstrip(s)
        n == IF \E i \in 1..Len(t) : IsWhitespace(t[i])
             THEN (CHOOSE i \in 1..Len(t) :
                      IsWhitespace(t[i]) /\ \A j \in 1..(i - 1) : ~IsWhitespace(t[j])) - 1
             ELSE Len(t)
    IN  IF Len(t) = 0 THEN <<>>
        ELSE <<SubSeq(t, 1, n)>> \o splitWords(SubSeq(t, n + 1, Len(t)))

----------------------------------------------------------------------------
(* Configuration and environment *)

HTTP_METHODS_ALLOWED == {<<"GET">>, <<"HEAD">>}

\* CONTENT_TYPES_ALLOWED: extension (with its dot) -> MIME type
CONTENT_TYPES_ALLOWED ==
    [e \in {".html", ".js", ".css", ".jpeg", ".jpg", ".png", ".gif", ".swf", ".txt"} |->
        CASE e = ".html" -> "text/html"
          [] e = ".js"   -> "application/javascript"
          [] e = ".css"  -> "text/css"
          [] e = ".jpeg" -> "image/jpeg"
          [] e = ".jpg"  -> "image/jpeg"
          [] e = ".png"  -> "image/png"
          [] e = ".gif"  -> "image/gif"
          [] e = ".swf"  -> "application/x-shockwave-flash"
          [] e = ".txt"  -> "text/plain"]

\* os.getcwd() of the server process: it is started in its document root
Cwd == <<SLASH, "srv">>

\* The file system the server runs on.  A node is the sequence of the names
\* from the root; every name is one token.
Dirs ==
    { <<>>,
      <<"srv">>,
      <<"srv", "httptest">>,
      <<"srv", "httptest", "httptest">> }

FileNodes ==
    { <<"srv", "index.html">>,
      <<"srv", "httptest", "index.html">>,
      <<"srv", "httptest", "LICENSE">> }

\* the bytes of the files when the server starts, one token a byte; the 11
\* bytes of /srv/index.html hold a blank line ("hi\r\n\r\nworld")
InitialContent(f) ==
    IF f = <<"srv", "index.html">>
    THEN <<"h", "i", CR, LF, CR, LF, "w", "o", "r", "l", "d">>
    ELSE IF f = <<"srv", "httptest", "index.html">> THEN <<"a", "b", "c">>
    ELSE <<"M", "I">>

\* what another process may write into a file
WrittenContent == <<"x">>

NoNode == <<"ENOENT">>

----------------------------------------------------------------------------
(* os.path and pathlib *)

isabs(p) == Len(p) > 0 /\ p[1] = SLASH

\* os.path.join(a, b)
ospath_join(a, b) ==
    IF isabs(b) THEN b
    ELSE IF a = <<>> \/ a[Len(a)] = SLASH THEN a \o b
    ELSE a \o <<SLASH>> \o b

\* the loop of posixpath.normpath over the components
RECURSIVE NormComps(_, _, _)
NormComps(comps, new_comps, initial_slashes) ==
    IF comps = <<>> THEN new_comps
    ELSE
        LET comp == Head(comps)
            next ==
                IF comp = <<>> \/ comp = <<DOT>> THEN new_comps
                ELSE IF \/ comp # <<DOTDOT>>
                        \/ (initial_slashes = 0 /\ new_comps = <<>>)
                        \/ (new_comps # <<>> /\ new_comps[Len(new_comps)] = <<DOTDOT>>)
                     THEN Append(new_comps, comp)
                ELSE IF new_comps # <<>> THEN SubSeq(new_comps, 1, Len(new_comps) - 1)
                ELSE new_comps
        IN  NormComps(Tail(comps), next, initial_slashes)

\* posixpath.normpath(path)
normpath(path) ==
    IF path = <<>> THEN <<DOT>>
    ELSE
        LET initial_slashes ==
                IF ~isabs(path) THEN 0
                ELSE IF IsPrefix(<<SLASH, SLASH>>, path) /\ ~IsPrefix(<<SLASH, SLASH, SLASH>>, path)
                     THEN 2
                ELSE 1
            comps == NormComps(split(path, <<SLASH>>), <<>>, initial_slashes)
            res == [i \in 1..initial_slashes |-> SLASH] \o join(<<SLASH>>, comps)
        IN  IF res = <<>> THEN <<DOT>> ELSE res

\* posixpath.abspath(path)
abspath(path) ==
    IF isabs(path) THEN normpath(path) ELSE normpath(ospath_join(Cwd, path))

\* the components posixpath.commonpath compares: empty ones and "." dropped
PathComps(p) == SelectSeq(split(p, <<SLASH>>), LAMBDA c : c # <<>> /\ c # <<DOT>>)

RECURSIVE CommonPrefix(_, _)
CommonPrefix(s1, s2) ==
    IF s1 = <<>> \/ s2 = <<>> \/ Head(s1) # Head(s2) THEN <<>>
    ELSE <<Head(s1)>> \o CommonPrefix(Tail(s1), Tail(s2))

\* posixpath.commonpath([p1, p2]) of two absolute paths (both arguments of
\* check_safe_url are absolute, so its ValueError for mixed paths cannot arise)
commonpath(p1, p2) ==
    <<SLASH>> \o join(<<SLASH>>, CommonPrefix(PathComps(p1), PathComps(p2)))

\* check_safe_url comparing the target as sent, without os.path.abspath
check_safe_url_raw(safe_dir, target_url) ==
    safe_dir = commonpath(safe_dir, target_url)

check_safe_url(safe_dir, target_url) ==
    LET match == abspath(target_url)
    IN  safe_dir = commonpath(safe_dir, match)

\* str(pathlib.Path(s)): repeated slashes, "." segments and trailing slashes
\* dropped, ".." kept, exactly two leading slashes kept
Path(s) ==
    LET root == IF IsPrefix(<<SLASH, SLASH>>, s) /\ ~IsPrefix(<<SLASH, SLASH, SLASH>>, s)
                THEN <<SLASH, SLASH>>
                ELSE IF isabs(s) THEN <<SLASH>> ELSE <<>>
        res == root \o join(<<SLASH>>, PathComps(s))
    IN  IF res = <<>> THEN <<DOT>> ELSE res

\* str.replace("%20", " ")
replace20(s) == [i \in DOMAIN s |-> IF s[i] = "%20" THEN SP ELSE s[i]]

\* The kernel's walk along the components of a path: the node reached, NoNode
\* on ENOENT or ENOTDIR
RECURSIVE Walk(_, _)
Walk(comps, cur) ==
    IF comps = <<>> \/ cur = NoNode THEN cur
    ELSE
        LET c == Head(comps)
            next ==
                IF cur \notin Dirs THEN NoNode
                ELSE IF c = <<>> \/ c = <<DOT>> THEN cur
                ELSE IF c = <<DOTDOT>>
                     THEN IF cur = <<>> THEN cur ELSE SubSeq(cur, 1, Len(cur) - 1)
                ELSE IF Len(c) = 1 /\ Append(cur, c[1]) \in (Dirs \cup FileNodes)
                     THEN Append(cur, c[1])
                ELSE NoNode
        IN  Walk(Tail(comps), next)

\* the node an absolute path string names
Lookup(p) == Walk(split(p, <<SLASH>>), <<>>)

\* Path.is_dir(), Path.is_file(): False when the path names nothing
is_dir(p) == Lookup(p) \in Dirs
is_file(p) == Lookup(p) \in FileNodes

\* the extension of a name token, "" when it has none
Extension(name) ==
    CASE name = "index.html" -> ".html"
      [] OTHER -> ""

\* Path.suffix: the extension of the last component.  Only paths of existing
\* files are asked for it, and their names are single tokens.
suffix(p) ==
    LET comps == PathComps(p)
        name == IF comps = <<>> THEN <<>> ELSE comps[Len(comps)]
    IN  IF Len(name) = 1 THEN Extension(name[1]) ELSE ""

----------------------------------------------------------------------------
(* Requests and responses *)

headers_end == <<CR, LF, CR, LF>>

\* urllib.parse.unquote on one token: a percent escape becomes the text it encodes
UnquoteToken(t) ==
    CASE t = "%2e%2e" -> DOTDOT
      [] t = "%2F"    -> SLASH
      [] t = "%3F"    -> QMARK
      [] t = "%2520"  -> "%20"
      [] OTHER        -> t

unquote(s) == [i \in DOMAIN s |-> UnquoteToken(s[i])]

\* parse_request without the strip() of the buffer
parse_request_no_strip(data) ==
    LET parsed_data == split(data, <<CR, LF>>)
        words == splitWords(parsed_data[1])
    IN  IF Len(words) = 3
        THEN [ok |-> TRUE, method |-> words[1], target |-> unquote(words[2])]
        ELSE [ok |-> FALSE, method |-> <<>>, target |-> <<>>]

\* parse_request: ok is FALSE where the code raises ValueError (the request
\* line does not unpack into method, target, version)
parse_request(data) ==
    LET request_line == strip(data)
        parsed_data == split(request_line, <<CR, LF>>)
        words == splitWords(parsed_data[1])
    IN  IF Len(words) = 3
        THEN [ok |-> TRUE, method |-> words[1], target |-> unquote(words[2])]
        ELSE [ok |-> FALSE, method |-> <<>>, target |-> <<>>]

\* target.partition("/")[-1].partition("?")[0]
StripTarget(target) == partition(partition(target, <<SLASH>>)[3], <<QMARK>>)[1]

\* Path(str(Path(os.path.join(document_root, target))).replace("%20", " "))
TargetPath(document_root, target) == Path(replace20(Path(ospath_join(document_root, target))))

\* str(status): the code, a space, the reason phrase, character by character
StatusText(code) ==
    CASE code = 200 -> <<"2", "0", "0", " ", "O", "K">>
      [] code = 400 -> <<"4", "0", "0", " ", "B", "a", "d", " ", "R", "e", "q", "u", "e", "s", "t">>
      [] code = 403 -> <<"4", "0", "3", " ", "F", "o", "r", "b", "i", "d", "d", "e", "n">>
      [] code = 404 -> <<"4", "0", "4", " ", "N", "o", "t", " ", "F", "o", "u", "n", "d">>
      [] code = 405 -> <<"4", "0", "5", " ", "M", "e", "t", "h", "o", "d", " ", "N", "o", "t",
                         " ", "A", "l", "l", "o", "w", "e", "d">>
      [] code = 408 -> <<"4", "0", "8", " ", "R", "e", "q", "u", "e", "s", "t", " ",
                         "T", "i", "m", "e", "o", "u", "t">>

\* the decimal digits of a natural number (str(n), f"{n}")
RECURSIVE Decimal(_)
Decimal(n) ==
    LET digit == <<"0", "1", "2", "3", "4", "5", "6", "7", "8", "9">>[(n % 10) + 1]
    IN  IF n < 10 THEN <<digit>> ELSE Append(Decimal(n \div 10), digit)

\* the message of each member of HTTPStatus, character by character
ReasonPhrase(code) ==
    CASE code = 200 -> <<"O", "K">>
      [] code = 400 -> <<"B", "a", "d", " ", "R", "e", "q", "u", "e", "s", "t">>
      [] code = 403 -> <<"F", "o", "r", "b", "i", "d", "d", "e", "n">>
      [] code = 404 -> <<"N", "o", "t", " ", "F", "o", "u", "n", "d">>
      [] code = 405 -> <<"M", "e", "t", "h", "o", "d", " ", "N", "o", "t", " ",
                         "A", "l", "l", "o", "w", "e", "d">>
      [] code = 408 -> <<"R", "e", "q", "u", "e", "s", "t", " ", "T", "i", "m", "e", "o", "u", "t">>

\* send_error with the reason phrase alone as body
ErrorResponse_phrase_only(code) ==
    LET body == ReasonPhrase(code)
    IN  [status |-> code, content_type |-> "text/plain",
         content_length |-> Len(body), body |-> body]

NoResponse == [status |-> 0, content_type |-> "", content_length |-> 0, body |-> <<>>]

\* the response send_error writes
ErrorResponse(code) ==
    LET body == StatusText(code)
    IN  [status |-> code, content_type |-> "text/plain",
         content_length |-> Len(body), body |-> body]

\* strftime("%a, %d %b %Y %H:%M:%S GMT") of the time of the response
Now ==
    <<"Thu,", SP, "05", SP, "Nov", SP, "2026", SP, "04", ":", "25", ":", "01", SP, "GMT">>

\* the header lines both send_error and send_response build
Headers(status, content_type, content_length) ==
    << <<"HTTP/1.1", SP>> \o StatusText(status),
       <<"Date", ":", SP>> \o Now,
       <<"Content-Type", ":", SP, content_type>>,
       <<"Content-Length", ":", SP>> \o Decimal(content_length),
       <<"Server", ":", SP, "Otus-Python-HTTP-Server">>,
       <<"Connection", ":", SP, "close">> >>

\* raw_response with one line end between the headers and the body
raw_response_one_crlf(response) ==
    join(<<CR, LF>>, Headers(response.status, response.content_type, response.content_length))
        \o <<CR, LF>> \o response.body

\* raw_response of send_response, and of send_error for the response
\* ErrorResponse(status): "\r\n".join(headers) + "\r\n\r\n" + body
raw_response(response) ==
    join(<<CR, LF>>, Headers(response.status, response.content_type, response.content_length))
        \o <<CR, LF, CR, LF>> \o response.body

\* CheckRequest with the traversal check made before the method check
CheckRequest_path_first(request, safe_dir) ==
    IF ~request.ok THEN 400
    ELSE IF ~check_safe_url(safe_dir, request.target) THEN 403
    ELSE IF request.method \notin HTTP_METHODS_ALLOWED THEN 405
    ELSE 0

\* handle_connection from parse_request to check_safe_url: the status of the
\* error to send, 0 when the request goes on to the path
CheckRequest(request, safe_dir) ==
    IF ~request.ok THEN 400
    ELSE IF request.method \notin HTTP_METHODS_ALLOWED THEN 405
    ELSE IF ~check_safe_url(safe_dir, request.target) THEN 403
    ELSE 0

\* CheckPath without the branch for a target that ends with "/"
CheckPath_no_slash_check(document_root, request_target) ==
    LET target == StripTarget(request_target)
        path == TargetPath(document_root, target)
        final == IF is_dir(path) THEN Path(path \o <<SLASH, "index.html">>) ELSE path
        err == IF ~is_file(final) THEN 404 ELSE 0
    IN  [error |-> err, path |-> IF err = 0 THEN final ELSE <<>>]

\* handle_connection from target.partition to path.is_file(): the status of
\* the error to send, or 0 and the path of the file to serve
CheckPath(document_root, request_target) ==
    LET target == StripTarget(request_target)
        path == TargetPath(document_root, target)
        dir == is_dir(path)
        final == IF dir THEN Path(path \o <<SLASH, "index.html">>) ELSE path
        err == IF ~dir /\ Len(target) > 0 /\ target[Len(target)] = SLASH THEN 404
               ELSE IF ~is_file(final) THEN 404
               ELSE 0
    IN  [error |-> err, path |-> IF err = 0 THEN final ELSE <<>>]

\* handle_connection from the buffer read to the path check
Resolve(document_root, safe_dir, data) ==
    LET request == parse_request(data)
        err == CheckRequest(request, safe_dir)
        found == IF err = 0 THEN CheckPath(document_root, request.target)
                 ELSE [error |-> err, path |-> <<>>]
    IN  [error |-> found.error, method |-> request.method, path |-> found.path]

\* BodyFor reading the file for HEAD too
BodyFor_always(method, content) == content

\* body = b"" if method == "HEAD" else path.read_bytes()
BodyFor(method, content) == IF method = <<"HEAD">> THEN <<>> ELSE content

----------------------------------------------------------------------------
(* What clients send *)

\* A client's behaviour: the chunks its bytes arrive in (one recv each), and
\* what it does when it has sent them: "close" its side (recv returns b""),
\* "reset" the connection (recv and sendall raise), or stay "silent"
Client(chunks, fin) == [chunks |-> chunks, fin |-> fin]

\* a request head: request line, blank line
Req(method, target) == <<method, SP>> \o target \o <<SP, "HTTP/1.1">> \o headers_end

\* s cut into chunks after each position of cuts
RECURSIVE SplitAt(_, _)
SplitAt(s, cuts) ==
    IF cuts = {} THEN <<s>>
    ELSE LET m == CHOOSE x \in cuts : \A y \in cuts : x <= y
         IN  <<SubSeq(s, 1, m)>> \o SplitAt(SubSeq(s, m + 1, Len(s)), {x - m : x \in cuts \ {m}})

\* the request head whose arrival in chunks is enumerated
ChunkedHead == Req("GET", <<SLASH, "httptest", SLASH, "index.html">>)

Workers == 1..NumWorkers
Conns == 1..MaxConns

TargetAlphabet == {SLASH, DOTDOT, QMARK, "httptest", "index.html"}
EncodedAlphabet == {SLASH, "%2e%2e", "%3F", "httptest", "index.html"}
BufferAlphabet == {SP, CR, LF, "GET"}
StemAlphabet == {SLASH, DOTDOT, "httptest", "index.html"}

\* the clients of the pool specification: one of each outcome
PoolClients ==
    { Client(<<Req("GET", <<SLASH, "httptest", SLASH, "index.html">>)>>, "close"),
      Client(<<Req("HEAD", <<SLASH, "httptest", SLASH, "index.html">>)>>, "close"),
      Client(<<Req("GET", <<SLASH, "httptest", SLASH, "LICENSE">>)>>, "close"),
      Client(<<Req("POST", <<SLASH, "httptest", SLASH, "index.html">>)>>, "close"),
      Client(<<Req("GET", <<SLASH, DOTDOT, SLASH, "index.html">>)>>, "reset"),
      Client(<<Req("GET", <<SLASH, "httptest", SLASH, "missing.html">>)>>, "close"),
      Client(<<<<"garbage", CR, LF>>>>, "close"),
      Client(<<Req("GET", <<SLASH, "httptest", SLASH>>)>>, "reset"),
      Client(<<<<"GET", SP>>>>, "reset"),
      Client(<<<<"GET", SP, SLASH>>>>, "silent"),
      Client(<< <<"GET", SP, SLASH, SP, "HTTP/1.1", CR, LF>>, <<CR, LF>> >>, "silent") }

\* the clients of the specification of the pool alone: one for each way a
\* connection ends (answered, answered with an error, KeyError, a failed recv,
\* a failed send of either kind, never finished)
PoolEndings ==
    { Client(<<Req("GET", <<SLASH, "httptest", SLASH, "index.html">>)>>, "close"),
      Client(<<Req("GET", <<SLASH, "httptest", SLASH, "LICENSE">>)>>, "close"),
      Client(<<<<"garbage", CR, LF>>>>, "close"),
      Client(<<Req("GET", <<SLASH, DOTDOT, SLASH, "index.html">>)>>, "reset"),
      Client(<<Req("GET", <<SLASH, "httptest", SLASH>>)>>, "reset"),
      Client(<<<<"GET", SP>>>>, "reset"),
      Client(<<<<"GET", SP, SLASH>>>>, "silent") }

\* requests for a server whose safe directory is its document root /srv
RootClients ==
    { Client(<<Req(m, t)>>, "close") :
        m \in {"GET", "HEAD"},
        t \in { <<SLASH, "index.html">>,
                <<SLASH, "srv", SLASH, "index.html">>,
                <<SLASH, SLASH, "srv", SLASH, "index.html">>,
                <<SLASH, "httptest", SLASH, "index.html">> } }

DefaultConfig == [root |-> <<SLASH, "srv">>, safe |-> <<SLASH, "httptest">>]
RootConfig == [root |-> <<SLASH, "srv">>, safe |-> <<SLASH, "srv">>]

----------------------------------------------------------------------------
(* State *)

IdleWorker ==
    [pc |-> "accept", c |-> 0, request_data |-> <<>>, method |-> <<>>, path |-> <<>>,
     status |-> 0, content_length |-> 0, body |-> <<>>]

DeadWorker == [IdleWorker EXCEPT !.pc = "dead"]

\* A connection no client has opened yet.  received, resp and file record, for
\* the properties, the buffer read_request returned, the response the client
\* got and the file whose size and bytes were read; sent is every byte the
\* client sends on the connection, raw the bytes the server wrote to it.
NoConn ==
    [st |-> "idle", received |-> <<>>, wire |-> <<>>, fin |-> "close", handler |-> "none",
     responses |-> 0, closes |-> 0, resp |-> NoResponse, file |-> NoNode,
     sent |-> <<>>, raw |-> <<>>]

\* a connection in the listening socket's backlog
NewConn(cl) ==
    [NoConn EXCEPT !.st = "backlog", !.wire = cl.chunks, !.fin = cl.fin,
                   !.sent = join(<<>>, cl.chunks)]

InitFs == [f \in FileNodes |-> InitialContent(f)]

\* serve_forever on the repository's configuration: the workers wait in accept
Init ==
    /\ DOCUMENT_ROOT = DefaultConfig.root
    /\ SAFE_DIR = DefaultConfig.safe
    /\ fs = InitFs
    /\ conn = [c \in Conns |-> NoConn]
    /\ wk = [w \in Workers |-> IdleWorker]

\* the backlog holds the connection of one client
OneClient(cl) == conn = [c \in Conns |-> IF c = 1 THEN NewConn(cl) ELSE NoConn]

\* the backlog holds the connections of two clients that ask for the same
\* target, the first by method m and the second by the other of GET and HEAD
TwoClients(m, t) ==
    conn = [c \in Conns |->
              IF c = 1 THEN NewConn(Client(<<Req(m, t)>>, "close"))
              ELSE IF c = 2
              THEN NewConn(Client(<<Req(IF m = "GET" THEN "HEAD" ELSE "GET", t)>>, "close"))
              ELSE NoConn]

\* the backlog holds the connections of two clients that GET the same path,
\* the first without a query string and the second with the query string q
QueryPair(t, q) ==
    conn = [c \in Conns |->
              IF c = 1 THEN NewConn(Client(<<Req("GET", t)>>, "close"))
              ELSE IF c = 2 THEN NewConn(Client(<<Req("GET", t \o <<QMARK>> \o q)>>, "close"))
              ELSE NoConn]

\* A freshly started server with clients waiting in its backlog.  On the
\* repository's configuration: every target up to MaxTargetLen tokens by GET,
\* every target up to MaxPairLen tokens by methods that are not allowed,
\* percent-encoded targets, every buffer up
\* to MaxBufLen tokens of spaces, line ends and words, the pool's clients, one
\* request head cut into at most MaxChunks chunks in every way, and
\* a GET and a HEAD for the same target, and a path requested with and
\* without a query string.  With the safe directory set to the
\* document root: RootClients.
InitHandler ==
    /\ \/ /\ DOCUMENT_ROOT = DefaultConfig.root
          /\ SAFE_DIR = DefaultConfig.safe
          /\ \/ \E k \in 0..MaxTargetLen : \E t \in [1..k -> TargetAlphabet] :
                  OneClient(Client(<<Req("GET", t)>>, "close"))
             \/ \E k \in 0..MaxPairLen : \E t \in [1..k -> TargetAlphabet] :
                  \E m \in {"POST", "get"} : OneClient(Client(<<Req(m, t)>>, "close"))
             \/ \E k \in 0..MaxEncLen : \E t \in [1..k -> EncodedAlphabet] :
                  OneClient(Client(<<Req("GET", t)>>, "close"))
             \/ \E k \in 0..MaxBufLen : \E d \in [1..k -> BufferAlphabet] :
                  OneClient(Client(<<d>>, "close"))
             \/ \E cl \in PoolClients : OneClient(cl)
             \/ \E cuts \in SUBSET (1..(Len(ChunkedHead) - 1)) :
                  /\ Cardinality(cuts) < MaxChunks
                  /\ \E fin \in {"close", "silent"} :
                        OneClient(Client(SplitAt(ChunkedHead, cuts), fin))
             \/ \E k \in 0..MaxPairLen : \E t \in [1..k -> TargetAlphabet] :
                  \E m \in {"GET", "HEAD"} : TwoClients(m, t)
             \/ \E k \in 0..MaxStemLen : \E t \in [1..k -> StemAlphabet] :
                  \E j \in 0..MaxQueryLen : \E q \in [1..j -> TargetAlphabet] :
                      QueryPair(t, q)
       \/ /\ DOCUMENT_ROOT = RootConfig.root
          /\ SAFE_DIR = RootConfig.safe
          /\ \E cl \in RootClients : OneClient(cl)
    /\ fs = InitFs
    /\ wk = [w \in Workers |-> IdleWorker]

----------------------------------------------------------------------------
(* Actions *)

Unchanged_cfg == UNCHANGED <<DOCUMENT_ROOT, SAFE_DIR>>

\* a client connects: the connection enters the backlog (in order of arrival)
ClientConnect(c, cl) ==
    /\ conn[c].st = "idle"
    /\ \A d \in Conns : d < c => conn[d].st # "idle"
    /\ conn' = [conn EXCEPT ![c] = NewConn(cl)]
    /\ UNCHANGED <<fs, wk>>
    /\ Unchanged_cfg

\* Accept that leaves the connection in the backlog, for another accept to return
Accept_shared(w, c) ==
    /\ wk[w].pc = "accept"
    /\ conn[c].st = "backlog"
    /\ \A d \in Conns : d < c => conn[d].st # "backlog"
    /\ wk' = [wk EXCEPT ![w] = [IdleWorker EXCEPT !.pc = "recv", !.c = c]]
    /\ conn' = [conn EXCEPT ![c].handler = "running"]
    /\ UNCHANGED fs
    /\ Unchanged_cfg

\* wait_connection: server.accept() returns the oldest connection of the backlog
Accept(w, c) ==
    /\ wk[w].pc = "accept"
    /\ conn[c].st = "backlog"
    /\ \A d \in Conns : d < c => conn[d].st # "backlog"
    /\ wk' = [wk EXCEPT ![w] = [IdleWorker EXCEPT !.pc = "recv", !.c = c]]
    /\ conn' = [conn EXCEPT ![c].st = "open", ![c].handler = "running"]
    /\ UNCHANGED fs
    /\ Unchanged_cfg

\* read_request: one conn.recv(1024) that returns data
Recv(w) ==
    LET c == wk[w].c IN
    /\ wk[w].pc = "recv"
    /\ conn[c].wire # <<>>
    /\ LET data == Head(conn[c].wire) IN
        /\ wk' = [wk EXCEPT ![w].request_data = @ \o data,
                            ![w].pc = IF Contains(data, headers_end) \/ data = <<>>
                                      THEN "handle" ELSE "recv"]
        /\ conn' = [conn EXCEPT ![c].wire = Tail(@)]
    /\ UNCHANGED fs
    /\ Unchanged_cfg

\* RecvEof for a read that gives up on a peer that stays silent
RecvEof_timeout(w) ==
    LET c == wk[w].c IN
    /\ wk[w].pc = "recv"
    /\ conn[c].wire = <<>>
    /\ conn[c].fin \in {"close", "silent"}
    /\ wk' = [wk EXCEPT ![w].pc = "handle"]
    /\ UNCHANGED <<fs, conn>>
    /\ Unchanged_cfg

\* read_request: conn.recv(1024) returns b"" because the peer closed its side
RecvEof(w) ==
    LET c == wk[w].c IN
    /\ wk[w].pc = "recv"
    /\ conn[c].wire = <<>>
    /\ conn[c].fin = "close"
    /\ wk' = [wk EXCEPT ![w].pc = "handle"]
    /\ UNCHANGED <<fs, conn>>
    /\ Unchanged_cfg

\* read_request: conn.recv(1024) raises because the peer reset the connection;
\* nothing catches it, so the worker's thread ends
RecvRaises(w) ==
    LET c == wk[w].c IN
    /\ wk[w].pc = "recv"
    /\ conn[c].wire = <<>>
    /\ conn[c].fin = "reset"
    /\ wk' = [wk EXCEPT ![w] = DeadWorker]
    /\ conn' = [conn EXCEPT ![c].handler = "raised"]
    /\ UNCHANGED fs
    /\ Unchanged_cfg

\* handle_connection from parse_request to path.is_file()
Handle(w) ==
    /\ wk[w].pc = "handle"
    /\ wk' = LET r == Resolve(DOCUMENT_ROOT, SAFE_DIR, wk[w].request_data)
             IN  [wk EXCEPT ![w].pc = IF r.error = 0 THEN "stat" ELSE "send_error",
                            ![w].status = r.error,
                            ![w].method = r.method,
                            ![w].path = r.path]
    /\ conn' = [conn EXCEPT ![wk[w].c].received = wk[w].request_data]
    /\ UNCHANGED fs
    /\ Unchanged_cfg

\* send_error: sendall, then close; the handler returns and the worker accepts again
SendError(w) ==
    LET c == wk[w].c IN
    /\ wk[w].pc = "send_error"
    /\ conn[c].fin # "reset"
    /\ conn' = [conn EXCEPT ![c].resp = ErrorResponse(wk[w].status),
                            ![c].raw = raw_response(ErrorResponse(wk[w].status)),
                            ![c].responses = @ + 1,
                            ![c].closes = @ + 1,
                            ![c].st = "closed",
                            ![c].handler = "returned"]
    /\ wk' = [wk EXCEPT ![w] = IdleWorker]
    /\ UNCHANGED fs
    /\ Unchanged_cfg

\* send_error: sendall raises, close is not reached, the worker's thread ends
SendErrorRaises(w) ==
    LET c == wk[w].c IN
    /\ wk[w].pc = "send_error"
    /\ conn[c].fin = "reset"
    /\ conn' = [conn EXCEPT ![c].handler = "raised"]
    /\ wk' = [wk EXCEPT ![w] = DeadWorker]
    /\ UNCHANGED fs
    /\ Unchanged_cfg

\* stat = path.stat(); content_length = stat.st_size
Stat(w) ==
    LET c == wk[w].c
        f == Lookup(wk[w].path) IN
    /\ wk[w].pc = "stat"
    /\ wk' = [wk EXCEPT ![w].content_length = Len(fs[f]), ![w].pc = "read"]
    /\ conn' = [conn EXCEPT ![c].file = f]
    /\ UNCHANGED fs
    /\ Unchanged_cfg

\* body = b"" if method == "HEAD" else path.read_bytes(), then the HTTPResponse
\* is built; CONTENT_TYPES_ALLOWED[path.suffix] raises KeyError for an
\* extension that is not in the table, and the worker's thread ends
ReadBytes(w) ==
    LET c == wk[w].c
        f == Lookup(wk[w].path) IN
    /\ wk[w].pc = "read"
    /\ IF suffix(wk[w].path) \in DOMAIN CONTENT_TYPES_ALLOWED
       THEN /\ wk' = [wk EXCEPT ![w].body = BodyFor(wk[w].method, fs[f]),
                                ![w].status = 200,
                                ![w].pc = "send"]
            /\ UNCHANGED conn
       ELSE /\ wk' = [wk EXCEPT ![w] = DeadWorker]
            /\ conn' = [conn EXCEPT ![c].handler = "raised"]
    /\ UNCHANGED fs
    /\ Unchanged_cfg

\* the HTTPResponse handle_connection builds
Response(w) ==
    [status |-> wk[w].status,
     content_type |-> CONTENT_TYPES_ALLOWED[suffix(wk[w].path)],
     content_length |-> wk[w].content_length,
     body |-> wk[w].body]

\* send_response, conn.close(); the handler returns and the worker accepts again
SendResponse(w) ==
    LET c == wk[w].c IN
    /\ wk[w].pc = "send"
    /\ conn[c].fin # "reset"
    /\ conn' = [conn EXCEPT ![c].resp = Response(w),
                            ![c].raw = raw_response(Response(w)),
                            ![c].responses = @ + 1,
                            ![c].closes = @ + 1,
                            ![c].st = "closed",
                            ![c].handler = "returned"]
    /\ wk' = [wk EXCEPT ![w] = IdleWorker]
    /\ UNCHANGED fs
    /\ Unchanged_cfg

\* send_response: sendall raises, conn.close() is not reached, the thread ends
SendResponseRaises(w) ==
    LET c == wk[w].c IN
    /\ wk[w].pc = "send"
    /\ conn[c].fin = "reset"
    /\ conn' = [conn EXCEPT ![c].handler = "raised"]
    /\ wk' = [wk EXCEPT ![w] = DeadWorker]
    /\ UNCHANGED fs
    /\ Unchanged_cfg

\* the file another process rewrites while the server runs
Writable == { <<"srv", "httptest", "index.html">> }

\* another process rewrites a served file (or restores it)
FileChange(f) ==
    /\ fs' = [fs EXCEPT ![f] = IF @ = WrittenContent THEN InitialContent(f) ELSE WrittenContent]
    /\ UNCHANGED <<conn, wk>>
    /\ Unchanged_cfg

\* the steps of one worker
WorkerStep(w) ==
    \/ \E c \in Conns : Accept(w, c)
    \/ Recv(w)
    \/ RecvEof(w)
    \/ RecvRaises(w)
    \/ Handle(w)
    \/ SendError(w)
    \/ SendErrorRaises(w)
    \/ Stat(w)
    \/ ReadBytes(w)
    \/ SendResponse(w)
    \/ SendResponseRaises(w)

\* the worker pool serving clients while another process writes files
Next ==
    \/ \E c \in Conns, cl \in PoolClients : ClientConnect(c, cl)
    \/ \E w \in Workers : WorkerStep(w)
    \/ \E f \in Writable : FileChange(f)

Spec == Init /\ [][Next]_vars

\* the worker pool alone: clients connect, workers serve them, no other
\* process writes the files
NextPool ==
    \/ \E c \in Conns, cl \in PoolEndings : ClientConnect(c, cl)
    \/ \E w \in Workers : WorkerStep(w)

SpecPool == Init /\ [][NextPool]_vars

\* the steps in which a worker waits for the outside world: a connection to
\* accept, bytes to read
WorkerWaits(w) ==
    \/ \E c \in Conns : Accept(w, c)
    \/ Recv(w)
    \/ RecvEof(w)
    \/ RecvRaises(w)

\* the positions of handle_connection after read_request has returned; at each
\* of them one step of the worker is enabled, whatever the other threads and
\* the clients do, and at most four such steps lead out of these positions
AfterRead == {"handle", "send_error", "stat", "read", "send"}

\* The pool with every worker thread scheduled: a worker that can take a step
\* eventually takes it.  For the steps that wait for the outside world this is
\* weak fairness of WorkerWaits(w).  For the steps after the read, which are
\* enabled exactly at the positions AfterRead and leave them within four
\* steps, weak fairness is the same as being outside AfterRead again and again.
SpecPoolLive ==
    /\ SpecPool
    /\ \A w \in Workers : WF_vars(WorkerWaits(w)) /\ []<>(wk[w].pc \notin AfterRead)

\* handle_connection, run by the first worker on each connection of the backlog
\* in turn; no other process writes the files
NextHandler == WorkerStep(1)

SpecHandler == InitHandler /\ [][NextHandler]_vars

----------------------------------------------------------------------------
(* Notions the properties are stated in *)

\* handle_connection has ended for connection c: it returned or it raised
Finished(c) == conn[c].handler \in {"returned", "raised"}

\* handle_connection returned for c, so a response went out and c was closed
Returned(c) == conn[c].handler = "returned"

\* the request line the server read on connection c
RequestOf(c) == parse_request(conn[c].received)

\* c carries a well-formed request by GET or HEAD
IsGetOrHead(c) == RequestOf(c).ok /\ RequestOf(c).method \in {<<"GET">>, <<"HEAD">>}

\* the client of connection c never sends \r\n\r\n and never closes
SilentForever(c) ==
    /\ conn[c].st # "idle"
    /\ conn[c].fin = "silent"
    /\ ~Contains(conn[c].sent, headers_end)

\* worker w is inside handle_connection
InFlight(w) == wk[w].pc \notin {"accept", "dead"}

\* the workers inside handle_connection for connection c
HandlersOf(c) == {w \in Workers : InFlight(w) /\ wk[w].c = c}

\* the connections being handled
BeingHandled == {c \in Conns : conn[c].handler = "running"}

\* the components of a path with every "..", "." and empty segment resolved
RECURSIVE Canonical(_)
Canonical(comps) ==
    IF comps = <<>> THEN <<>>
    ELSE
        LET front == Canonical(SubSeq(comps, 1, Len(comps) - 1))
            c == comps[Len(comps)]
        IN  IF c = <<>> \/ c = <<DOT>> THEN front
            ELSE IF c = <<DOTDOT>>
                 THEN IF front = <<>> THEN <<>> ELSE SubSeq(front, 1, Len(front) - 1)
            ELSE Append(front, c)

\* the canonical components of a target in absolute form
CanonicalTarget(target) ==
    Canonical(split(IF isabs(target) THEN target ELSE Cwd \o <<SLASH>> \o target, <<SLASH>>))

\* the target canonicalizes to the safe directory or to a path below it
InsideSafeDir(target) ==
    IsPrefix(Canonical(split(SAFE_DIR, <<SLASH>>)), CanonicalTarget(target))

\* the file-system node a directory path of single-token names stands for
NodeOf(p) == LET comps == Canonical(split(p, <<SLASH>>)) IN [i \in DOMAIN comps |-> comps[i][1]]

\* node f lies in the safe-directory subtree, whether SAFE_DIR is read as a
\* path below the document root or as a path of the file system
InSafeSubtree(f) ==
    \/ IsPrefix(NodeOf(DOCUMENT_ROOT \o SAFE_DIR), f)
    \/ IsPrefix(NodeOf(SAFE_DIR), f)

\* The target names an existing regular file: the kernel finds a file at the
\* document root joined with the target cut at its first "?", or a directory
\* that holds a file index.html
ResolvesToFile(target) ==
    LET node == Walk(split(ospath_join(DOCUMENT_ROOT, StripTarget(target)), <<SLASH>>), <<>>)
    IN  \/ node \in FileNodes
        \/ node \in Dirs /\ Append(node, "index.html") \in FileNodes

\* the directory the target names: the node the kernel finds at the document
\* root joined with the target cut at its first "?", when it is a directory
DirectoryOf(target) ==
    LET node == Walk(split(ospath_join(DOCUMENT_ROOT, StripTarget(target)), <<SLASH>>), <<>>)
    IN  IF node \in Dirs THEN node ELSE NoNode

\* the text before the first CRLF of a buffer
FirstLine(buf) ==
    IF \E i \in 1..(Len(buf) - 1) : buf[i] = CR /\ buf[i + 1] = LF
    THEN SubSeq(buf, 1, (CHOOSE i \in 1..(Len(buf) - 1) :
                            /\ buf[i] = CR /\ buf[i + 1] = LF
                            /\ \A j \in 1..(i - 1) : ~(buf[j] = CR /\ buf[j + 1] = LF)) - 1)
    ELSE buf

\* how many whitespace-separated tokens a line holds
TokenCount(line) ==
    Cardinality({i \in 1..Len(line) :
                    ~IsWhitespace(line[i]) /\ (i = 1 \/ IsWhitespace(line[i - 1]))})

\* a buffer without the whitespace (blank lines included) it starts with
SkipLeadingWhitespace(buf) ==
    LET text == {i \in 1..Len(buf) : ~IsWhitespace(buf[i])}
    IN  IF text = {} THEN <<>>
        ELSE SubSeq(buf, CHOOSE i \in text : \A j \in text : i <= j, Len(buf))

----------------------------------------------------------------------------
(* Properties *)

\* C1: every file whose size or bytes the server read for a connection lies
\* inside the safe-directory subtree.
C1_ServedFileInsideSafeDir ==
    \A c \in Conns : conn[c].file # NoNode => InSafeSubtree(conn[c].file)

\* C2: every connection whose handler has ended, and whose client did not
\* reset it, received exactly one response and was closed exactly once.
C2_OneResponseOneClose ==
    \A c \in Conns :
        (Finished(c) /\ conn[c].fin # "reset")
            => conn[c].responses = 1 /\ conn[c].closes = 1

\* C3: no worker's thread ever ends; every worker is in its accept loop or
\* handling a connection.
C3_WorkersStayAlive ==
    \A w \in Workers : wk[w].pc # "dead"

\* C4: a well-formed GET or HEAD whose target canonicalizes outside the safe
\* directory is answered 403 and nothing else, and no file is read for it.
C4_OutsideSafeDirIs403 ==
    \A c \in Conns :
        (Finished(c) /\ IsGetOrHead(c) /\ ~InsideSafeDir(RequestOf(c).target))
            => /\ conn[c].file = NoNode
               /\ Returned(c) => conn[c].resp.status = 403
               /\ ~Returned(c) => conn[c].fin = "reset" /\ conn[c].responses = 0

C4_Witness ==
    \E c \in Conns :
        /\ Returned(c) /\ RequestOf(c).method = <<"GET">>
        /\ Contains(RequestOf(c).target, <<DOTDOT>>)
        /\ ~InsideSafeDir(RequestOf(c).target)
        /\ conn[c].resp.status = 403

\* C5: with document root /srv and safe directory /srv, GET /index.html is
\* answered 200 with Content-Length 11 and the 11 bytes of /srv/index.html.
C5_RootIndexServed ==
    \A c \in Conns :
        ( /\ DOCUMENT_ROOT = <<SLASH, "srv">> /\ SAFE_DIR = <<SLASH, "srv">>
          /\ Finished(c)
          /\ conn[c].received = Req("GET", <<SLASH, "index.html">>) )
            => /\ conn[c].resp.status = 200
               /\ conn[c].resp.content_length = 11
               /\ conn[c].resp.body = InitialContent(<<"srv", "index.html">>)

\* C6: a request line of three tokens whose method is not exactly GET or HEAD
\* is answered 405 whatever its target, and no file is read for it.
C6_OtherMethodIs405 ==
    \A c \in Conns :
        (Finished(c) /\ RequestOf(c).ok /\ RequestOf(c).method \notin {<<"GET">>, <<"HEAD">>})
            => /\ conn[c].file = NoNode
               /\ Returned(c) => conn[c].resp.status = 405
               /\ ~Returned(c) => conn[c].fin = "reset" /\ conn[c].responses = 0

C6_Witness ==
    \E c \in Conns :
        /\ Returned(c) /\ RequestOf(c).method = <<"POST">>
        /\ ~InsideSafeDir(RequestOf(c).target)
        /\ conn[c].resp.status = 405

\* C7: a GET or HEAD whose target lies inside the safe directory but names no
\* existing regular file is answered 404, and no file is read for it.
C7_MissingFileIs404 ==
    \A c \in Conns :
        ( /\ Finished(c) /\ IsGetOrHead(c)
          /\ InsideSafeDir(RequestOf(c).target)
          /\ ~ResolvesToFile(RequestOf(c).target) )
            => /\ conn[c].file = NoNode
               /\ Returned(c) => conn[c].resp.status = 404
               /\ ~Returned(c) => conn[c].fin = "reset" /\ conn[c].responses = 0

C7_Witness ==
    \E c \in Conns :
        /\ Returned(c) /\ IsGetOrHead(c)
        /\ InsideSafeDir(RequestOf(c).target)
        /\ RequestOf(c).target[Len(RequestOf(c).target)] = SLASH
        /\ Contains(RequestOf(c).target, <<"index.html">>)
        /\ conn[c].resp.status = 404

\* C8 as stated: an answered buffer gets 400 exactly when its first line (the
\* text before its first CRLF) does not hold exactly three tokens.
C8_FirstLineDecides400 ==
    \A c \in Conns :
        Returned(c) =>
            (conn[c].resp.status = 400 <=> TokenCount(FirstLine(conn[c].received)) # 3)

\* C8 amended: an answered buffer gets 400 exactly when the first line of what
\* follows its leading whitespace (leading blank lines included) does not hold
\* exactly three tokens; an empty or all-whitespace buffer gets 400.
C8_FirstTextLineDecides400 ==
    \A c \in Conns :
        Returned(c) =>
            (conn[c].resp.status = 400
                <=> TokenCount(FirstLine(SkipLeadingWhitespace(conn[c].received))) # 3)

C8_Witness ==
    \E c \in Conns :
        /\ Returned(c)
        /\ IsPrefix(<<CR, LF>>, conn[c].received)
        /\ TokenCount(FirstLine(conn[c].received)) = 0
        /\ conn[c].resp.status \notin {0, 400}

\* C9: every 200 response to a GET carries a Content-Length equal to the
\* length of its body, and the body is the bytes the file held at some time.
C9_ContentLengthIsBodyLength ==
    \A c \in Conns :
        (conn[c].resp.status = 200 /\ RequestOf(c).method = <<"GET">>)
            => /\ conn[c].resp.content_length = Len(conn[c].resp.body)
               /\ conn[c].resp.body \in {InitialContent(conn[c].file), WrittenContent}

\* C10: when a GET and a HEAD ask for the same target and one of them is
\* answered 200, both are, with the same Content-Type and Content-Length, and
\* the HEAD response has an empty body.
C10_HeadMatchesGet ==
    \A g, h \in Conns :
        ( /\ Returned(g) /\ Returned(h)
          /\ RequestOf(g).method = <<"GET">> /\ RequestOf(h).method = <<"HEAD">>
          /\ RequestOf(g).target = RequestOf(h).target
          /\ (conn[g].resp.status = 200 \/ conn[h].resp.status = 200) )
            => /\ conn[h].resp.status = conn[g].resp.status
               /\ conn[h].resp.content_type = conn[g].resp.content_type
               /\ conn[h].resp.content_length = conn[g].resp.content_length
               /\ conn[h].resp.content_length = Len(conn[g].resp.body)
               /\ conn[h].resp.body = <<>>

C10_Witness ==
    \E g, h \in Conns :
        /\ Returned(g) /\ Returned(h)
        /\ RequestOf(g).method = <<"GET">> /\ RequestOf(h).method = <<"HEAD">>
        /\ RequestOf(g).target = RequestOf(h).target
        /\ conn[g].resp.status = 200 /\ conn[h].resp.status = 200
        /\ conn[h].resp.content_length = 3 /\ conn[h].resp.body = <<>>

\* C11: every error response (400, 403, 404, 405) has Content-Type text/plain,
\* a body that is the decimal code, a space and the reason phrase of its
\* status, and a Content-Length equal to the length of that body.
C11_ErrorResponseShape ==
    \A c \in Conns :
        (Returned(c) /\ conn[c].resp.status \in {400, 403, 404, 405})
            => /\ conn[c].resp.content_type = "text/plain"
               /\ conn[c].resp.body
                    = Decimal(conn[c].resp.status) \o <<" ">> \o ReasonPhrase(conn[c].resp.status)
               /\ conn[c].resp.content_length = Len(conn[c].resp.body)

C11_Witness ==
    \E c \in Conns :
        /\ Returned(c)
        /\ RequestOf(c).method = <<"GET">>
        /\ IsPrefix(<<SLASH, DOTDOT>>, RequestOf(c).target)
        /\ conn[c].resp.status = 403
        /\ conn[c].resp.content_length = 13
        /\ conn[c].resp.body = <<"4", "0", "3", " ", "F", "o", "r", "b", "i", "d", "d", "e", "n">>

\* C12: whenever a worker leaves the sending of a response (send_response or
\* send_error), the send having failed or not, its connection has been closed
\* once, the handler has returned and the worker is back in accept.
C12_SendFailureStillCloses ==
    [][\A w \in Workers :
          (wk[w].pc \in {"send", "send_error"} /\ wk'[w] # wk[w])
              => /\ wk'[w].pc = "accept"
                 /\ conn'[wk[w].c].closes = 1
                 /\ conn'[wk[w].c].handler = "returned"]_vars

\* C13: read_request goes on reading only while the accumulated buffer holds
\* no \r\n\r\n, and it has returned only with \r\n\r\n in the buffer or after a
\* read of zero bytes (the peer closed and nothing is left to read).
C13_ReadStopsAtTerminator ==
    \A w \in Workers :
        /\ wk[w].pc = "recv" => ~Contains(wk[w].request_data, headers_end)
        /\ wk[w].pc = "handle" =>
              \/ Contains(wk[w].request_data, headers_end)
              \/ conn[wk[w].c].wire = <<>> /\ conn[wk[w].c].fin = "close"

\* C14: at every moment each connection being handled is in the hands of
\* exactly one worker, each worker inside the handler holds a connection that
\* is being handled, and at most NumWorkers connections are being handled; and
\* in every step a connection being handled is touched only by the worker that
\* holds it, which keeps holding it until the handler ends.
C14_OneWorkerPerConnection ==
    /\ [](/\ \A c \in BeingHandled : Cardinality(HandlersOf(c)) = 1
          /\ \A w \in Workers : InFlight(w) => wk[w].c \in BeingHandled
          /\ \A v, w \in Workers : (InFlight(v) /\ InFlight(w) /\ v # w) => wk[v].c # wk[w].c
          /\ Cardinality(BeingHandled) <= NumWorkers)
    /\ [][\A c \in BeingHandled :
            /\ conn'[c] # conn[c] =>
                  \E w \in HandlersOf(c) :
                      /\ wk'[w] # wk[w]
                      /\ \A v \in Workers \ {w} : wk'[v] = wk[v]
            /\ conn'[c].handler = "running" =>
                  \A w \in HandlersOf(c) : wk'[w].c = c /\ wk'[w].pc \notin {"accept", "dead"}]_vars

C14_Witness ==
    /\ Cardinality(BeingHandled) = NumWorkers
    /\ \A w \in Workers : InFlight(w)
    /\ \E c \in Conns : conn[c].st = "backlog"
    /\ \E c \in BeingHandled : \E w \in HandlersOf(c) : wk[w].pc = "send"

\* C15: an answered buffer that is not empty and holds no CRLF is answered with
\* 400, whatever its text.
C15_NoLineIs400 ==
    \A c \in Conns :
        ( /\ Returned(c)
          /\ conn[c].received # <<>>
          /\ ~Contains(conn[c].received, <<CR, LF>>) )
            => conn[c].resp.status = 400

\* C16: two requests by the same allowed method whose targets are equal up to
\* their first "?" get the same status, Content-Type, Content-Length and body.
C16_QueryDiscarded ==
    \A g, h \in Conns :
        ( /\ Returned(g) /\ Returned(h)
          /\ IsGetOrHead(g) /\ IsGetOrHead(h)
          /\ RequestOf(g).method = RequestOf(h).method
          /\ partition(RequestOf(g).target, <<QMARK>>)[1]
                = partition(RequestOf(h).target, <<QMARK>>)[1] )
            => conn[g].resp = conn[h].resp

\* C17: a GET whose target names an existing directory of the safe-directory
\* subtree that holds a regular file index.html is answered 200 with the bytes
\* of that index.html.
C17_DirectoryServesIndex ==
    \A c \in Conns :
        LET dir == DirectoryOf(RequestOf(c).target) IN
        ( /\ Returned(c)
          /\ RequestOf(c).ok /\ RequestOf(c).method = <<"GET">>
          /\ dir # NoNode
          /\ IsPrefix(NodeOf(DOCUMENT_ROOT \o SAFE_DIR), dir)
          /\ Append(dir, "index.html") \in FileNodes )
            => /\ conn[c].resp.status = 200
               /\ conn[c].file = Append(dir, "index.html")
               /\ conn[c].resp.body = fs[Append(dir, "index.html")]
               /\ conn[c].resp.content_length = Len(conn[c].resp.body)

\* C18: the status of every response is one of 200, 400, 403, 404, 405 (never
\* 408); and a connection whose client never sends \r\n\r\n and never closes
\* gets no response and no close, and from its accept on its worker is in
\* read_request.
C18_NoTimeout ==
    /\ \A c \in Conns :
          /\ conn[c].resp.status \in {0, 200, 400, 403, 404, 405}
          /\ conn[c].responses > 0 => conn[c].resp.status # 0
    /\ \A w \in Workers : wk[w].status \in {0, 200, 400, 403, 404, 405}
    /\ \A c \in Conns :
          SilentForever(c) =>
              /\ conn[c].responses = 0 /\ conn[c].closes = 0 /\ conn[c].raw = <<>>
              /\ conn[c].handler \in {"none", "running"}
              /\ conn[c].handler = "running" =>
                    \E w \in Workers : wk[w].c = c /\ wk[w].pc = "recv"

C18_Witness ==
    \E c \in Conns, w \in Workers :
        /\ SilentForever(c)
        /\ conn[c].handler = "running"
        /\ conn[c].wire = <<>>
        /\ wk[w].c = c /\ wk[w].pc = "recv"
        /\ wk[w].request_data = conn[c].sent
        /\ Len(conn[c].sent) > 0

\* C19: while every client is one that sends what it has to send and closes
\* its side, every connection that reaches the backlog is eventually answered
\* once and closed.
C19_EveryConnectionServed ==
    \A c \in Conns :
        (conn[c].st = "backlog" /\ \A d \in Conns : conn[d].fin = "close")
            ~> \/ conn[c].st = "closed" /\ conn[c].responses = 1
               \/ \E d \in Conns : conn[d].fin # "close"

\* int(digits): the number whose decimal digits are given (inverse of Decimal)
RECURSIVE ParseInt(_)
ParseInt(digits) ==
    LET value(t) == CHOOSE d \in 0..9 : Decimal(d) = <<t>>
        n == Len(digits)
    IN  IF n = 1 THEN value(digits[1])
        ELSE 10 * ParseInt(SubSeq(digits, 1, n - 1)) + value(digits[n])

\* the value of the header line named name in the lines of a header block
HeaderValue(lines, name) ==
    LET i == CHOOSE j \in 2..Len(lines) : partition(lines[j], <<":", SP>>)[1] = <<name>>
    IN  partition(lines[i], <<":", SP>>)[3]

\* a client's reading of the bytes of a response: the header block ends at the
\* first empty line, its first line is "HTTP/1.1 <code> <reason>", the others
\* are "<name>: <value>", and what follows the empty line is the body
ParseResponse(raw) ==
    LET parts  == partition(raw, headers_end)
        lines  == split(parts[1], <<CR, LF>>)
        status == partition(partition(lines[1], <<SP>>)[3], <<" ">>)
    IN  [code           |-> ParseInt(status[1]),
         reason         |-> status[3],
         content_type   |-> HeaderValue(lines, "Content-Type"),
         content_length |-> ParseInt(HeaderValue(lines, "Content-Length")),
         body           |-> parts[3]]

\* C20: for every response the server has written (200 or error), parsing the
\* status line and the header block of the bytes written gives back the status
\* code and reason, the content type and the content length of the response
\* that was built, and the bytes after the first CR LF CR LF are its body.
C20_SerializationRoundTrip ==
    \A c \in Conns :
        (Returned(c) /\ conn[c].responses = 1)
            => LET parsed == ParseResponse(conn[c].raw)
                   resp   == conn[c].resp
               IN  /\ parsed.code = resp.status
                   /\ parsed.reason = ReasonPhrase(resp.status)
                   /\ parsed.content_type = <<resp.content_type>>
                   /\ parsed.content_length = resp.content_length
                   /\ parsed.body = resp.body

C20_Witness ==
    \E c \in Conns :
        /\ Returned(c) /\ conn[c].responses = 1
        /\ conn[c].resp.status = 200
        /\ Contains(conn[c].resp.body, headers_end)
        /\ ParseResponse(conn[c].raw).content_length = 11
        /\ ParseResponse(conn[c].raw).body = conn[c].resp.body

====
